---- MODULE Spec2Model ----
(***************************************************************************)
(* Model of karin0/sticker-bot (src/main.rs).                              *)
(*                                                                         *)
(* Every inbound message is handled by its own spawned task (main, lines   *)
(* 434-485).  A task runs Request::handler, which classifies the message,  *)
(* checks the declared size, fetches the file, downloads it, converts it   *)
(* (in process, or through an external process run by wait_output) and     *)
(* delivers the result; main then sends the handler's text, if any.        *)
(*                                                                         *)
(* One action models one step between two suspension points of the task.   *)
(* The outcomes of the collaborators (Telegram, the file system, ffmpeg,   *)
(* the image codecs) are chosen nondeterministically.                      *)
(***************************************************************************)
EXTENDS Integers, Sequences, FiniteSets, TLC

VARIABLES task

vars == <<task>>

----------------------------------------------------------------------------
(* Program constants *)

MAX_SIZE == 10 * 1048576

MAX_OUTPUT_WEBM_SIZE == 256 * 1000

FFMPEG == "ffmpeg"

TGS_TO_GIF == "lottie_to_gif.sh"

----------------------------------------------------------------------------
(* Bounds and input domains *)

\* Cap on the processes one task may spawn (the code has no such counter).
MaxSpawns == 3

\* The tasks of the model; Init lets only the first one receive a message.
Tasks == {"t1", "t2"}

\* Sizes reported by the transport, around the 10 MiB limit.
Sizes == {1, MAX_SIZE, MAX_SIZE + 1}

\* Lengths of a downloaded file.
DataLens == {0, 7}

\* Lengths of a child's captured standard output, around the webm limit.
OutLens == {0, MAX_OUTPUT_WEBM_SIZE, MAX_OUTPUT_WEBM_SIZE + 1}

\* Exit statuses of a child.
Statuses == {0, 1}

\* What an inbound message holds (handler, lines 348-401).
Kinds == {"document", "document_gif", "photo", "animation", "sticker_static",
          "sticker_animated", "sticker_video", "start", "other"}

----------------------------------------------------------------------------
(* Results and errors (anyhow::Result) *)

\* Ok(..)
Ok == [ok |-> TRUE, lit |-> FALSE, msg |-> ""]

\* bail!("literal"): an error that downcasts to &'static str.
Bail(m) == [ok |-> FALSE, lit |-> TRUE, msg |-> m]

\* An error of a library type (io::Error, RequestError, DownloadError,
\* ImageError) converted by `?`: it does not downcast to &'static str.
Wrapped(m) == [ok |-> FALSE, lit |-> FALSE, msg |-> m]

\* A result that has not been produced yet.
NoResult == [ok |-> FALSE, lit |-> FALSE, msg |-> "none"]

Blob(len, ext, from) == [len |-> len, ext |-> ext, from |-> from]

NoBlob == Blob(0, "", "none")

NoCmd == [bin |-> "", lossless |-> FALSE]

NoOutput == [kind |-> "none", status |-> 0, len |-> 0]

----------------------------------------------------------------------------
(* Pure parts of the code *)

\* handler, lines 347-401: the operation chosen for a message.
OpOf_StaticAsImage(kind) ==
    CASE kind \in {"document", "photo", "sticker_static"} -> "Image"
      [] kind \in {"document_gif", "animation"} -> "Video"
      [] kind = "sticker_animated" -> "Animated"
      [] kind = "sticker_video" -> "VideoSticker"
      [] OTHER -> "None"

OpOf(kind) ==
    CASE kind \in {"document", "photo"} -> "Image"
      [] kind \in {"document_gif", "animation"} -> "Video"
      [] kind = "sticker_static" -> "Static"
      [] kind = "sticker_animated" -> "Animated"
      [] kind = "sticker_video" -> "VideoSticker"
      [] OTHER -> "None"

\* handler, line 402: the check of the size declared in the message.
DeclaredTooLarge_Inclusive(size) == size >= MAX_SIZE

DeclaredTooLarge(size) == size > MAX_SIZE

\* handle_media, line 282: the check of the size reported by get_file.
FetchedTooBig(size) == size > MAX_SIZE

\* handler, lines 408-410: the text of an error.
Downcast_Generic(e) == "Something went wrong."

Downcast(e) == IF e.lit THEN e.msg ELSE "Something went wrong."

\* handler, lines 406-412: the string the handler returns.
HandlerResult_Silent(res) == ""

HandlerResult(res) == IF res.ok THEN "" ELSE Downcast(res)

\* process_video, lines 139-141: whether the command carries -lossless 1.
LosslessArg(lossy) == ~lossy

\* process_video, line 148: whether the output is transcoded again.
NeedsRetry_NoFlag(lossy, len) == len > MAX_OUTPUT_WEBM_SIZE

NeedsRetry_Inclusive(lossy, len) == ~lossy /\ len >= MAX_OUTPUT_WEBM_SIZE

NeedsRetry(lossy, len) == ~lossy /\ len > MAX_OUTPUT_WEBM_SIZE

\* process_video, lines 144-147, and ffmpeg_to_gif, lines 171-174.
ExitFailed_Never(status) == FALSE

ExitFailed(status) == status # 0

\* wait_output, line 82: what dropping the Child does to a running process.
OnDrop_Detach(child) == child

OnDrop(child) == IF child = "running" THEN "killed" ELSE child

\* temp_file, line 93: dropping the TempPath removes the file it names.
DropPath_Leak(tmp) == tmp

DropPath(tmp) == IF tmp = "exists" THEN "removed" ELSE tmp

\* handle_sticker, lines 271-273: join! completes when both futures have.
JoinReady_FirstError(pcA, pcB, r1) == pcA = "done" /\ (pcB = "done" \/ ~r1.ok)

JoinReady(pcA, pcB, r1) == pcA = "done" /\ pcB = "done"

\* handle_sticker, lines 274-275: r1?; r2
JoinResult_FirstOnly(r1, r2) == IF ~r1.ok THEN r1 ELSE Ok

JoinResult_SecondFirst(r1, r2) == IF ~r2.ok THEN r2 ELSE r1

JoinResult(r1, r2) == IF ~r1.ok THEN r1 ELSE r2

\* process_image, lines 98-126, over the outcomes of the codecs; webp and
\* png count the calls of the two encoders.
process_image_NoFallback(decodes, webpOk, pngOk, len) ==
    IF ~decodes
    THEN [res |-> Bail("File is not an image."), blob |-> NoBlob,
          webp |-> 0, png |-> 0]
    ELSE IF webpOk
    THEN [res |-> Ok, blob |-> Blob(len, "webp", "encoder"), webp |-> 1, png |-> 0]
    ELSE [res |-> Wrapped("webp"), blob |-> NoBlob, webp |-> 1, png |-> 0]

process_image(decodes, webpOk, pngOk, len) ==
    IF ~decodes
    THEN [res |-> Bail("File is not an image."), blob |-> NoBlob,
          webp |-> 0, png |-> 0]
    ELSE IF webpOk
    THEN [res |-> Ok, blob |-> Blob(len, "webp", "encoder"), webp |-> 1, png |-> 0]
    ELSE IF pngOk
    THEN [res |-> Ok, blob |-> Blob(len, "png", "encoder"), webp |-> 1, png |-> 1]
    ELSE [res |-> Wrapped("png"), blob |-> NoBlob, webp |-> 1, png |-> 1]

\* What the codecs did for one call of process_image.
Codecs(called, decodes, webpOk, pngOk, webp, png) ==
    [called |-> called, decodes |-> decodes, webpOk |-> webpOk, pngOk |-> pngOk,
     webp |-> webp, png |-> png]

NoCodecs == Codecs(FALSE, FALSE, FALSE, FALSE, 0, 0)

----------------------------------------------------------------------------
(* State *)

\* The messages a user may send: what they hold and the size they declare.
\* An optional name: None, or Some(s) for a string s.
None == <<>>

Some(s) == <<s>>

\* handler, lines 348-391: the name the message carries for its medium:
\* doc.file_name (the extension gif is what makes a document a GIF),
\* none for a photo, ani.file_name, sti.set_name.
FileNames(kind) ==
    CASE kind = "document" -> {None, Some(""), Some("pic.png")}
      [] kind = "document_gif" -> {Some("a.gif")}
      [] kind = "animation" -> {None, Some("a.gif.mp4")}
      [] kind \in {"sticker_static", "sticker_animated", "sticker_video"} ->
             {None, Some("pack")}
      [] OTHER -> {None}

Messages ==
    {m \in [kind : Kinds, size : Sizes,
            file_name : UNION {FileNames(k) : k \in Kinds}] :
        m.file_name \in FileNames(m.kind)}

\* A task before its message arrives; msgs are the messages it may be given.
NewTask(pc, msgs) ==
    [pc |-> pc, msgs |-> msgs, pcA |-> "idle", pcB |-> "idle", wpc |-> "idle",
     kind |-> "other", declSize |-> 0, file_name |-> None, base |-> None,
     fsize |-> 0,
     fetches |-> 0, downloads |-> 0, dataLen |-> 0,
     lossy |-> FALSE, cmd |-> NoCmd, wres |-> NoOutput, child |-> "none",
     cout |-> NoOutput,
     runs |-> <<>>,
     tmp |-> "none", img |-> NoCodecs,
     blob |-> NoBlob, blobB |-> NoBlob, r1 |-> NoResult, r2 |-> NoResult,
     res |-> NoResult, ret |-> "", sends |-> <<>>, texts |-> <<>>, resp_ids |-> <<>>]

Init ==
    task = [r \in Tasks |->
               NewTask(IF r = "t1" THEN "pending" ELSE "absent", Messages)]

\* Two requests in flight: one of any operation that runs a conversion, and
\* a photo sent while it is handled.
InitMulti ==
    task = [r \in Tasks |->
               NewTask("pending",
                       IF r = "t1"
                       THEN {m \in Messages :
                               /\ m.size = 1
                               /\ m.file_name = None
                               /\ m.kind \in {"photo", "animation", "sticker_animated",
                                              "sticker_video"}}
                       ELSE {[kind |-> "photo", size |-> 1, file_name |-> None]})]

Set(r, t) == task' = [task EXCEPT ![r] = t]

\* The handler returns res to main (lines 406-412, 464).
Return(t, res) ==
    [t EXCEPT !.res = res, !.ret = HandlerResult(res), !.pc = "reply"]

----------------------------------------------------------------------------
(* Intake and classification *)

\* main, lines 451 and 483: the repl closure spawns the task and returns
\* without awaiting it, so it is ready for a message whatever the tasks do.
IntakeReady_Inline(r) ==
    \A q \in Tasks \ {r} : task[q].pc \in {"absent", "pending", "done"}

IntakeReady(r) == TRUE

\* main, lines 434-484: the repl closure spawns a task for the message and
\* returns at once.
Intake(r) ==
    /\ task[r].pc = "pending"
    /\ IntakeReady(r)
    /\ \E m \in task[r].msgs :
         Set(r, [task[r] EXCEPT !.pc = "handler", !.kind = m.kind,
                                !.declSize = m.size,
                                !.file_name = m.file_name])

\* handler, lines 334-405: classification and the declared-size check.
Classify(r) ==
    LET t == task[r] IN
    /\ t.pc = "handler"
    /\ Set(r, CASE t.kind = "start" ->
                     [t EXCEPT !.ret = "Send an image, GIF, or sticker to convert.",
                               !.pc = "reply"]
                [] t.kind = "other" ->
                     [t EXCEPT !.ret = "Please send an image, GIF, or sticker.",
                               !.pc = "reply"]
                [] OTHER ->
                     IF DeclaredTooLarge(t.declSize)
                     THEN [t EXCEPT !.ret = "File is too large.", !.pc = "reply"]
                     ELSE [t EXCEPT !.base = t.file_name, !.pc = "get_file"])

\* handle_media, lines 285-289, and the first step of each branch.
FirstStep(op) ==
    CASE op \in {"Image", "Static", "VideoSticker"} -> "download_mem"
      [] op \in {"Video", "Animated"} -> "temp_file"

\* handle_media, lines 280-284: get_file and the fetched-size check.
GetFile(r) ==
    LET t == [task[r] EXCEPT !.fetches = @ + 1] IN
    /\ task[r].pc = "get_file"
    /\ \/ Set(r, Return(t, Wrapped("get_file")))
       \/ \E size \in Sizes :
            Set(r, IF FetchedTooBig(size)
                   THEN Return([t EXCEPT !.fsize = size], Bail("File too big"))
                   ELSE [t EXCEPT !.fsize = size, !.pc = FirstStep(OpOf(t.kind))])

----------------------------------------------------------------------------
(* Download *)

\* download_mem, lines 234-239, and what its caller does with the bytes
\* (handle_image line 250, handle_sticker lines 262 and 270-271).
DownloadMem(r) ==
    LET t == [task[r] EXCEPT !.downloads = @ + 1] IN
    /\ task[r].pc = "download_mem"
    /\ \/ Set(r, Return(t, Wrapped("download")))
       \/ \E len \in DataLens :
            LET d == [t EXCEPT !.dataLen = len] IN
            Set(r, CASE OpOf(t.kind) = "Image" -> [d EXCEPT !.pc = "process_image"]
                     [] OpOf(t.kind) = "Static" ->
                          [d EXCEPT !.blob = Blob(len, "webp", "download"),
                                    !.pc = "send"]
                     [] OpOf(t.kind) = "VideoSticker" ->
                          [d EXCEPT !.blob = Blob(len, "webm", "download"),
                                    !.pc = "join", !.pcA = "send",
                                    !.pcB = "temp_file"])

\* temp_file, lines 92-96, called by download_tmp (line 242).
DownloadTmpFile(r) ==
    LET t == task[r] IN
    /\ t.pc = "temp_file"
    /\ \/ Set(r, Return(t, Wrapped("temp_file")))
       \/ Set(r, Return([t EXCEPT !.tmp = DropPath("exists")], Wrapped("temp_file")))
       \/ Set(r, [t EXCEPT !.tmp = "exists", !.pc = "download_tmp"])

\* download_tmp, lines 243-246, and the call its caller makes next
\* (process_video lines 135-142, tgs_to_gif lines 179-184).
DownloadTmp(r) ==
    LET t == [task[r] EXCEPT !.downloads = @ + 1] IN
    /\ task[r].pc = "download_tmp"
    /\ \/ Set(r, Return([t EXCEPT !.tmp = DropPath(@)], Wrapped("download")))
       \/ \E len \in DataLens :
            LET d == [t EXCEPT !.dataLen = len] IN
            Set(r, IF OpOf(t.kind) = "Video"
                   THEN [d EXCEPT !.pc = "process_video", !.lossy = FALSE,
                                  !.cmd = [bin |-> FFMPEG,
                                           lossless |-> LosslessArg(FALSE)],
                                  !.wpc = "spawn"]
                   ELSE [d EXCEPT !.pc = "tgs_to_gif",
                                  !.cmd = [bin |-> TGS_TO_GIF, lossless |-> FALSE],
                                  !.wpc = "spawn"])

----------------------------------------------------------------------------
(* Image conversion *)

\* handle_image, line 251: process_image on the downloaded bytes.
ProcessImage(r) ==
    LET t == task[r] IN
    /\ t.pc = "process_image"
    /\ \E decodes \in BOOLEAN, webpOk \in BOOLEAN, pngOk \in BOOLEAN :
         LET o == process_image(decodes, webpOk, pngOk, 1)
             d == [t EXCEPT !.img = Codecs(TRUE, decodes, webpOk, pngOk,
                                           o.webp, o.png)]
         IN
         Set(r, IF o.res.ok THEN [d EXCEPT !.blob = o.blob, !.pc = "send"]
                ELSE Return(d, o.res))

----------------------------------------------------------------------------
(* External processes *)

\* A call of wait_output by task t with its command, as recorded in runs.
Run(t, kind) ==
    [bin |-> t.cmd.bin, lossless |-> t.cmd.lossless, kind |-> kind,
     status |-> 0, len |-> 0]

\* wait_output, line 82: spawn the command with kill_on_drop.
WaitOutputSpawn(r) ==
    LET t == task[r] IN
    /\ t.wpc = "spawn"
    /\ Len(t.runs) < MaxSpawns
    /\ \/ Set(r, [t EXCEPT !.wres = [kind |-> "spawn_error", status |-> 0, len |-> 0],
                           !.wpc = "ret",
                           !.runs = Append(@, Run(t, "spawn_error"))])
       \/ Set(r, [t EXCEPT !.child = "running", !.cout = NoOutput, !.wpc = "wait",
                           !.runs = Append(@, Run(t, "running"))])

\* The child process exits with a status, having written its output.
ChildExit(r) ==
    LET t == task[r] IN
    /\ t.child = "running"
    /\ \E status \in Statuses, len \in OutLens :
         Set(r, [t EXCEPT !.child = "exited",
                          !.cout = [kind |-> "output", status |-> status,
                                    len |-> len]])

\* The end of run number Len(runs) of task t, with outcome o.
EndRun(t, o) ==
    [t EXCEPT !.runs[Len(t.runs)] =
                  [@ EXCEPT !.kind = o.kind, !.status = o.status, !.len = o.len],
              !.wres = o, !.wpc = "ret"]

\* wait_output, lines 83-84: the child exited within the deadline; the
\* io::Result of wait_with_output is returned as it is.
WaitOutputDone(r) ==
    LET t == task[r] IN
    /\ t.wpc = "wait"
    /\ t.child = "exited"
    /\ \/ Set(r, EndRun(t, t.cout))
       \/ Set(r, EndRun(t, [kind |-> "wait_error", status |-> 0, len |-> 0]))

\* wait_output, lines 85-88: the deadline of 60 seconds passes first; the
\* future that owns the Child is dropped.
WaitOutputTimeout(r) ==
    LET t == task[r] IN
    /\ t.wpc = "wait"
    /\ t.child = "running"
    /\ Set(r, EndRun([t EXCEPT !.child = OnDrop(t.child)],
                     [kind |-> "timeout", status |-> 0, len |-> 0]))

\* The error a caller gets from `wait_output(..).await?`.
WaitError(o) == Wrapped(o.kind)

----------------------------------------------------------------------------
(* Video conversion *)

\* process_video, lines 142-153, after wait_output has returned; handle_video
\* (lines 254-257) drops the temporary path when process_video returns.
ProcessVideoStep(r) ==
    LET t == task[r]
        o == t.wres
        d == [t EXCEPT !.wpc = "idle", !.tmp = DropPath(@)]
    IN
    /\ t.pc = "process_video"
    /\ t.wpc = "ret"
    /\ Set(r, IF o.kind # "output" THEN Return(d, WaitError(o))
              ELSE IF ExitFailed(o.status) THEN Return(d, Bail("ffmpeg"))
              ELSE IF NeedsRetry(t.lossy, o.len)
                   THEN [t EXCEPT !.lossy = TRUE,
                                  !.cmd = [bin |-> FFMPEG,
                                           lossless |-> LosslessArg(TRUE)],
                                  !.wpc = "spawn"]
              ELSE [d EXCEPT !.blob = Blob(o.len, "webm", "stdout"), !.pc = "send"])

\* tgs_to_gif, lines 185-190, after wait_output has returned; the temporary
\* path of handle_sticker (line 266) lives until send_raw has returned.
TgsToGifStep(r) ==
    LET t == task[r]
        o == t.wres
        d == [t EXCEPT !.wpc = "idle"]
    IN
    /\ t.pc = "tgs_to_gif"
    /\ t.wpc = "ret"
    /\ Set(r, IF o.kind # "output"
              THEN Return([d EXCEPT !.tmp = DropPath(@)], WaitError(o))
              ELSE IF ExitFailed(o.status)
              THEN Return([d EXCEPT !.tmp = DropPath(@)], Bail("tgs_to_gif"))
              ELSE [d EXCEPT !.blob = Blob(o.len, "gif", "stdout"), !.pc = "send"])

----------------------------------------------------------------------------
(* Delivery *)

\* Blob::into_input_file, lines 65-78: the attachment keeps the bytes and is
\* named after the base, or "out" when there is none, with the extension.
into_input_file_NoDot(blob, base) ==
    [len |-> blob.len,
     name |-> (IF base # None THEN base[1] ELSE "out") \o blob.ext]

into_input_file(blob, base) ==
    [len |-> blob.len,
     name |-> (IF base # None THEN base[1] \o "." ELSE "out.") \o blob.ext]

\* get_input_file, lines 330-332.
get_input_file(t, blob) == into_input_file(blob, t.base)

\* send / send_raw with finalize_send, lines 292-328: one send_document; a
\* message id is recorded when it succeeds.
Deliver_Overwrite(t, blob, ok) ==
    [t EXCEPT !.sends = Append(@, [blob |-> blob, ok |-> ok,
                                   file |-> get_input_file(t, blob)]),
              !.resp_ids = IF ok THEN <<blob.ext>> ELSE @]

Deliver(t, blob, ok) ==
    [t EXCEPT !.sends = Append(@, [blob |-> blob, ok |-> ok,
                                   file |-> get_input_file(t, blob)]),
              !.resp_ids = IF ok THEN Append(@, blob.ext) ELSE @]

\* finalize_send, lines 292-303.
SendResult(ok) == IF ok THEN Ok ELSE Bail("Failed to send.")

\* handle_media lines 286-287 and handle_sticker lines 262-267: the single
\* delivery of the Image, Video, Static and Animated operations.
Send(r) ==
    LET t == task[r] IN
    /\ t.pc = "send"
    /\ \E ok \in BOOLEAN :
         Set(r, Return([Deliver(t, t.blob, ok) EXCEPT
                            !.tmp = DropPath(@)],
                       SendResult(ok)))

----------------------------------------------------------------------------
(* Video sticker: the two paths of join! (handle_sticker, lines 270-276) *)

\* First future: send_raw of the downloaded bytes as webm.
JoinSendWebm(r) ==
    LET t == task[r] IN
    /\ t.pc = "join"
    /\ t.pcA = "send"
    /\ \E ok \in BOOLEAN :
         Set(r, [Deliver(t, t.blob, ok) EXCEPT !.r1 = SendResult(ok),
                                               !.pcA = "done"])

\* Second future, ffmpeg_to_gif line 159: temp_file.
FfmpegToGifFile(r) ==
    LET t == task[r] IN
    /\ t.pc = "join"
    /\ t.pcB = "temp_file"
    /\ \/ Set(r, [t EXCEPT !.r2 = Wrapped("temp_file"), !.pcB = "done"])
       \/ Set(r, [t EXCEPT !.tmp = DropPath("exists"), !.r2 = Wrapped("temp_file"),
                           !.pcB = "done"])
       \/ Set(r, [t EXCEPT !.tmp = "exists", !.pcB = "write"])

\* Second future, ffmpeg_to_gif lines 160-169: write the bytes, build the
\* command.
FfmpegToGifWrite(r) ==
    LET t == task[r] IN
    /\ t.pc = "join"
    /\ t.pcB = "write"
    /\ \/ Set(r, [t EXCEPT !.tmp = DropPath(@), !.r2 = Wrapped("write"),
                           !.pcB = "done"])
       \/ Set(r, [t EXCEPT !.cmd = [bin |-> FFMPEG, lossless |-> FALSE],
                           !.wpc = "spawn", !.pcB = "ffmpeg_to_gif"])

\* Second future, ffmpeg_to_gif lines 170-176, after wait_output has returned.
FfmpegToGifStep(r) ==
    LET t == task[r]
        o == t.wres
        d == [t EXCEPT !.wpc = "idle", !.tmp = DropPath(@)]
    IN
    /\ t.pc = "join"
    /\ t.pcB = "ffmpeg_to_gif"
    /\ t.wpc = "ret"
    /\ Set(r, IF o.kind # "output"
              THEN [d EXCEPT !.r2 = WaitError(o), !.pcB = "done"]
              ELSE IF ExitFailed(o.status)
              THEN [d EXCEPT !.r2 = Bail("ffmpeg"), !.pcB = "done"]
              ELSE [d EXCEPT !.blobB = Blob(o.len, "gif", "stdout"),
                             !.pcB = "send"])

\* Second future, line 272: send_raw of the gif.
JoinSendGif(r) ==
    LET t == task[r] IN
    /\ t.pc = "join"
    /\ t.pcB = "send"
    /\ \E ok \in BOOLEAN :
         Set(r, [Deliver(t, t.blobB, ok) EXCEPT !.r2 = SendResult(ok),
                                                !.pcB = "done"])

\* Lines 271-275: join! has both results; r1?; r2.  A future that join! no
\* longer polls is dropped with what it owns.
JoinDone(r) ==
    LET t == task[r] IN
    /\ t.pc = "join"
    /\ JoinReady(t.pcA, t.pcB, t.r1)
    /\ Set(r, Return([t EXCEPT !.child = OnDrop(@), !.wpc = "idle",
                               !.tmp = DropPath(@)],
                     JoinResult(t.r1, t.r2)))

----------------------------------------------------------------------------
(* The text reply *)

\* main, lines 464-480: the handler's string, when it is not empty, is sent
\* once as a text message.
Reply_Retry(r) ==
    LET t == task[r] IN
    /\ t.pc = "reply"
    /\ \/ /\ t.ret = ""
          /\ Set(r, [t EXCEPT !.pc = "done"])
       \/ /\ t.ret # ""
          /\ \E ok \in BOOLEAN :
               Set(r, [t EXCEPT !.pc = IF ok THEN "done" ELSE "reply",
                                !.texts = Append(@, [text |-> t.ret, ok |-> ok]),
                                !.resp_ids = IF ok THEN Append(@, "text") ELSE @])

Reply(r) ==
    LET t == task[r] IN
    /\ t.pc = "reply"
    /\ \/ /\ t.ret = ""
          /\ Set(r, [t EXCEPT !.pc = "done"])
       \/ /\ t.ret # ""
          /\ \E ok \in BOOLEAN :
               Set(r, [t EXCEPT !.pc = "done",
                                !.texts = Append(@, [text |-> t.ret, ok |-> ok]),
                                !.resp_ids = IF ok THEN Append(@, "text") ELSE @])

----------------------------------------------------------------------------
(* Specification *)

\* The steps of the task of one request.
TaskNext(r) ==
       \/ Intake(r)
       \/ Classify(r)
       \/ GetFile(r)
       \/ DownloadMem(r)
       \/ DownloadTmpFile(r)
       \/ DownloadTmp(r)
       \/ ProcessImage(r)
       \/ WaitOutputSpawn(r)
       \/ ChildExit(r)
       \/ WaitOutputDone(r)
       \/ WaitOutputTimeout(r)
       \/ ProcessVideoStep(r)
       \/ TgsToGifStep(r)
       \/ Send(r)
       \/ JoinSendWebm(r)
       \/ FfmpegToGifFile(r)
       \/ FfmpegToGifWrite(r)
       \/ FfmpegToGifStep(r)
       \/ JoinSendGif(r)
       \/ JoinDone(r)
       \/ Reply(r)

Next == \E r \in Tasks : TaskNext(r)

Spec == Init /\ [][Next]_vars

SpecMulti == InitMulti /\ [][Next]_vars

\* The runtime polls a future that can proceed, and the timer of wait_output
\* (line 83) fires: a call of wait_output and the loop of process_video are
\* not left waiting forever.
Fairness ==
    \A r \in Tasks :
       /\ WF_vars(WaitOutputSpawn(r))
       /\ WF_vars(WaitOutputDone(r))
       /\ WF_vars(WaitOutputTimeout(r))
       /\ WF_vars(ProcessVideoStep(r))

SpecLive == Spec /\ Fairness

----------------------------------------------------------------------------
(* Properties *)

\* The handler of task t has returned to main.
Returned(t) == t.pc \in {"reply", "done"}

\* process_video of task t has returned to its caller.
VideoReturned(t) == OpOf(t.kind) = "Video" /\ t.pc \in {"send", "reply", "done"}

\* A call of wait_output that ended with the child's exit status 0.
Succeeded(run) == run.kind = "output" /\ run.status = 0

\* A call of wait_output that ended with a non-zero exit status.
ExitedNonZero(run) == run.kind = "output" /\ run.status # 0

\* process_video has made at most two calls, and a second call that exited
\* with status 0 has been returned as a webm Blob.
C1_Bounded ==
    \A r \in Tasks :
       LET t == task[r] IN
       OpOf(t.kind) = "Video" =>
          /\ Len(t.runs) <= 2
          /\ (Len(t.runs) = 2 /\ Succeeded(t.runs[2]) /\ t.wpc = "idle") =>
                /\ VideoReturned(t)
                /\ t.res \in {NoResult, Ok, Bail("Failed to send.")}
                /\ t.blob = Blob(t.runs[2].len, "webm", "stdout")

\* C1: process_video calls the transcoder at most twice and then returns;
\* when the second (lossy) call exits with status 0 its output is returned as
\* a webm Blob, whatever its length, and no third call is made.
C1_AtMostTwoInvocations ==
    /\ []C1_Bounded
    /\ \A r \in Tasks :
          (task[r].pc = "process_video") ~> (task[r].pc # "process_video")

C1_Witness ==
    \E r \in Tasks :
       LET t == task[r] IN
       /\ OpOf(t.kind) = "Video"
       /\ Len(t.runs) = 2
       /\ Succeeded(t.runs[2])
       /\ t.runs[2].len > MAX_OUTPUT_WEBM_SIZE
       /\ t.pc = "done"
       /\ Len(t.sends) = 1
       /\ t.sends[1].blob = Blob(t.runs[2].len, "webm", "stdout")
       /\ t.sends[1].ok

\* C2: the first call of process_video carries the lossless flag; there is a
\* second call exactly when the first exited with status 0 and wrote more
\* than 256,000 bytes (256,000 bytes exactly are returned without a retry);
\* the second call does not carry the flag; the Blob returned is webm.
C2_RetryExactlyWhenOversized ==
    \A r \in Tasks :
       LET t == task[r] IN
       OpOf(t.kind) = "Video" =>
          /\ Len(t.runs) >= 1 => t.runs[1].lossless
          /\ Len(t.runs) >= 2 =>
                /\ Succeeded(t.runs[1])
                /\ t.runs[1].len > 256000
                /\ ~t.runs[2].lossless
          /\ (VideoReturned(t) /\ Len(t.runs) >= 1 /\ Succeeded(t.runs[1])
                /\ t.runs[1].len > 256000) => Len(t.runs) = 2
          /\ (VideoReturned(t) /\ Len(t.runs) >= 1 /\ Succeeded(t.runs[1])
                /\ t.runs[1].len <= 256000) =>
                /\ Len(t.runs) = 1
                /\ t.blob = Blob(t.runs[1].len, "webm", "stdout")
          /\ t.blob # NoBlob => t.blob.ext = "webm"

C2_Witness ==
    \E r \in Tasks :
       LET t == task[r] IN
       /\ OpOf(t.kind) = "Video"
       /\ Len(t.runs) = 2
       /\ t.runs[1].lossless /\ Succeeded(t.runs[1]) /\ t.runs[1].len = 256001
       /\ ~t.runs[2].lossless /\ Succeeded(t.runs[2])
       /\ t.pc = "send"
       /\ t.blob.ext = "webm"

\* C3: when a call of process_video exits non-zero, on the lossless or on
\* the lossy pass, the conversion fails at once: no further call is made, no
\* Blob is returned and nothing is delivered, also not the oversized output
\* of the lossless pass.
C3_NonZeroExitIsFatal ==
    \A r \in Tasks :
       LET t == task[r] IN
       OpOf(t.kind) = "Video" =>
          \A i \in 1..Len(t.runs) :
             ExitedNonZero(t.runs[i]) =>
                /\ i = Len(t.runs)
                /\ t.wpc # "spawn"
                /\ t.blob = NoBlob
                /\ t.sends = <<>>
                /\ t.wpc = "idle" => Returned(t) /\ ~t.res.ok

C3_Witness ==
    \E r \in Tasks :
       LET t == task[r] IN
       /\ OpOf(t.kind) = "Video"
       /\ Len(t.runs) = 2
       /\ Succeeded(t.runs[1])
       /\ ExitedNonZero(t.runs[2])
       /\ t.pc = "done"
       /\ ~t.res.ok

\* C4: when the size declared in the message, or the size reported by
\* get_file, exceeds 10 MiB, nothing is downloaded to memory or to a
\* temporary path, no process is spawned and nothing is delivered; a size of
\* exactly 10 MiB passes both checks.
C4_OversizedNeverDownloaded ==
    \A r \in Tasks :
       LET t == task[r] IN
       /\ (t.declSize > 10485760 \/ t.fsize > 10485760) =>
             /\ t.downloads = 0
             /\ t.tmp = "none"
             /\ t.runs = <<>>
             /\ t.sends = <<>>
       /\ (t.declSize = 10485760 /\ OpOf(t.kind) # "None") =>
             /\ t.ret # "File is too large."
             /\ Returned(t) => t.fetches = 1
       /\ t.fsize = 10485760 =>
             /\ t.res # Bail("File too big")
             /\ t.ret # "File too big"

C4_Witness ==
    \E r \in Tasks :
       LET t == task[r] IN
       /\ t.declSize = 10485760
       /\ t.fsize = 10485761
       /\ t.pc = "done"
       /\ t.res = Bail("File too big")
       /\ t.downloads = 0

\* The join! of a video sticker's two paths has returned.
Joined(t) == OpOf(t.kind) = "VideoSticker" /\ t.pcA # "idle" /\ Returned(t)

\* The deliveries of task t that carried extension ext.
SendsOf(t, ext) == {i \in 1..Len(t.sends) : t.sends[i].blob.ext = ext}

\* The failures the gif path of a video sticker can end with.
GifPathErrors ==
    {Wrapped("temp_file"), Wrapped("write"), Wrapped("spawn_error"),
     Wrapped("wait_error"), Wrapped("timeout"), Bail("ffmpeg"),
     Bail("Failed to send.")}

\* C5: after a video sticker's download, handle_sticker returns only when
\* both paths have completed; each path has run to its own end whatever the
\* other's result: the webm delivery was attempted once, and the gif path
\* either delivered the gif or failed in one of its own steps.
C5_BothPathsComplete ==
    \A r \in Tasks :
       LET t == task[r] IN
       Joined(t) =>
          /\ t.pcA = "done" /\ t.pcB = "done"
          /\ t.child # "running" /\ t.wpc = "idle"
          /\ Cardinality(SendsOf(t, "webm")) = 1
          /\ \A i \in SendsOf(t, "webm") : t.sends[i].ok <=> t.r1.ok
          /\ t.r1 \in {Ok, Bail("Failed to send.")}
          /\ t.r2.ok <=> \E i \in SendsOf(t, "gif") : t.sends[i].ok
          /\ ~t.r2.ok => t.r2 \in GifPathErrors

\* The gif path delivered while the webm delivery was still in flight, and
\* the webm delivery then failed.
C5_Witness ==
    \E r \in Tasks :
       LET t == task[r] IN
       /\ Joined(t)
       /\ Len(t.sends) = 2
       /\ t.sends[1].blob.ext = "gif" /\ t.sends[1].ok
       /\ t.sends[2].blob.ext = "webm" /\ ~t.sends[2].ok
       /\ ~t.r1.ok /\ t.r2.ok

\* C6 as stated: a video sticker request reports failure only if the webm
\* delivery, the path attempted first, failed.
C6_FailureOnlyIfFirstPathFailed ==
    \A r \in Tasks :
       LET t == task[r] IN
       (Joined(t) /\ t.ret # "") => ~t.r1.ok

\* C6 as amended: a video sticker request reports failure exactly when at
\* least one of its two paths failed.
C6_FailureIffEitherPathFailed ==
    \A r \in Tasks :
       LET t == task[r] IN
       Joined(t) =>
          /\ ~t.res.ok <=> (~t.r1.ok \/ ~t.r2.ok)
          /\ t.ret # "" <=> (~t.r1.ok \/ ~t.r2.ok)

C6_Witness ==
    \E r \in Tasks :
       LET t == task[r] IN
       /\ Joined(t)
       /\ t.r1.ok
       /\ ~t.r2.ok
       /\ t.ret # ""
       /\ t.pc = "done"
       /\ Len(t.texts) = 1

\* C7: a failure of a video sticker's gif path is not swallowed: when only
\* the gif path fails the request's result is that path's error, and when
\* both paths fail it is the error of the webm path, listed first.
C7_ErrorPrecedence ==
    \A r \in Tasks :
       LET t == task[r] IN
       Joined(t) =>
          /\ (t.r1.ok /\ ~t.r2.ok) => (t.res = t.r2 /\ t.ret = Downcast(t.r2))
          /\ (~t.r1.ok /\ ~t.r2.ok) => (t.res = t.r1 /\ t.ret = Downcast(t.r1))

C7_Witness ==
    \E r \in Tasks :
       LET t == task[r] IN
       /\ Joined(t)
       /\ t.r1 = Bail("Failed to send.")
       /\ t.r2 = Wrapped("timeout")
       /\ t.res = t.r1
       /\ t.pc = "done"

\* The deliveries of task t that succeeded, and the texts that arrived.
Delivered(t) == {i \in 1..Len(t.sends) : t.sends[i].ok}

Received(t) == {i \in 1..Len(t.texts) : t.texts[i].ok}

\* The deliveries an operation makes when nothing fails.
Expected(op) == IF op = "VideoSticker" THEN 2 ELSE 1

\* C8 as stated: when the task of a message that holds media finishes, the
\* user has received the attachments or exactly one text, not both and not
\* neither.
C8_AttachmentOrOneText ==
    \A r \in Tasks :
       LET t == task[r] IN
       (t.pc = "done" /\ OpOf(t.kind) # "None") =>
          (Delivered(t) # {}) # (Cardinality(Received(t)) = 1)

\* C8 as amended: when the task finishes, either the handler succeeded, every
\* delivery of the operation arrived and no text was attempted, or the
\* handler failed and exactly one text, the handler's string, was attempted;
\* a failed request has also delivered an attachment only when exactly one
\* path of a video sticker failed, and it leaves the user with nothing when
\* no delivery arrived and the text itself could not be sent.
C8_AttachmentsOrOneTextAttempt ==
    \A r \in Tasks :
       LET t == task[r] IN
       (t.pc = "done" /\ OpOf(t.kind) # "None") =>
          /\ t.res.ok =>
                /\ t.texts = <<>>
                /\ Len(t.sends) = Expected(OpOf(t.kind))
                /\ Delivered(t) = 1..Len(t.sends)
          /\ ~t.res.ok =>
                /\ Len(t.texts) = 1
                /\ t.texts[1].text = t.ret
                /\ t.ret # ""
                /\ Delivered(t) # {} =>
                      /\ Joined(t)
                      /\ Cardinality(Delivered(t)) = 1
                      /\ t.r1.ok # t.r2.ok
          /\ (Delivered(t) = {} /\ Received(t) = {}) =>
                (~t.res.ok /\ ~t.texts[1].ok)

\* One path of a video sticker failed: the user has an attachment and a text.
C8_Witness ==
    \E r \in Tasks :
       LET t == task[r] IN
       /\ t.pc = "done"
       /\ Joined(t)
       /\ t.r1.ok /\ ~t.r2.ok
       /\ Cardinality(Delivered(t)) = 1
       /\ Cardinality(Received(t)) = 1

\* C9: when an external transcoder exits non-zero (and no delivery of the
\* request failed), the request fails and the text sent to the user is
\* "Something went wrong.".
C9_TranscodeFailureIsGeneric ==
    \A r \in Tasks :
       LET t == task[r] IN
       (t.pc = "done" /\ Delivered(t) = 1..Len(t.sends)
          /\ \E i \in 1..Len(t.runs) : ExitedNonZero(t.runs[i])) =>
          /\ ~t.res.ok
          /\ Len(t.texts) = 1
          /\ t.texts[1].text = "Something went wrong."

\* No child runs outside a call of wait_output; a timeout has killed the
\* child; an exit in time is returned with the child's status and output.
C10_Returned ==
    \A r \in Tasks :
       LET t == task[r] IN
       /\ t.child = "running" => t.wpc = "wait"
       /\ t.wpc = "ret" =>
             /\ t.wres.kind = "timeout" <=> t.child = "killed"
             /\ t.wres.kind = "timeout" => t.cout = NoOutput
             /\ t.wres.kind \in {"output", "wait_error"} => t.child = "exited"
             /\ t.wres.kind = "output" =>
                   /\ t.wres = t.cout
                   /\ t.wres.status \in Statuses
                   /\ t.wres.len \in OutLens

\* C10: when the deadline passes before the child has exited, wait_output
\* returns the timeout error and the child has been killed; no child is
\* running once wait_output has returned; when the child exits in time, its
\* output and status are what wait_output returns, a non-zero status too;
\* a call that waits for its child always returns.
C10_TimeoutKillsChild ==
    /\ []C10_Returned
    /\ \A r \in Tasks : (task[r].wpc = "wait") ~> (task[r].wpc = "ret")

C10_Witness ==
    \E r \in Tasks :
       LET t == task[r] IN
       /\ t.wpc = "ret"
       /\ t.wres.kind = "timeout"
       /\ t.child = "killed"
       /\ t.runs[Len(t.runs)].kind = "timeout"

\* C11: a temporary file acquired by temp_file is removed by the time the
\* handler of its request returns, on every exit path, and it exists as long
\* as a process that was given its path is running.
C11_TempFileRemoved ==
    \A r \in Tasks :
       LET t == task[r] IN
       /\ Returned(t) => t.tmp \in {"none", "removed"}
       /\ t.child = "running" => t.tmp = "exists"
       /\ t.tmp = "removed" => t.child # "running"
       /\ t.downloads > 0 /\ OpOf(t.kind) \in {"Video", "Animated"} => t.tmp # "none"
       /\ t.runs # <<>> => t.tmp # "none"

\* The transcoder of a video timed out: it was killed, then the file removed.
C11_Witness ==
    \E r \in Tasks :
       LET t == task[r] IN
       /\ t.pc = "done"
       /\ t.tmp = "removed"
       /\ t.child = "killed"
       /\ Len(t.runs) = 1
       /\ t.runs[1].kind = "timeout"

\* The handler of task t ended in a failure that no other task shares.
TimedOut(t) ==
    /\ t.pc = "done"
    /\ \E i \in 1..Len(t.runs) : t.runs[i].kind = "timeout"
    /\ ~t.res.ok

C13_ImageOutcomes ==
    \A r \in Tasks :
       LET t == task[r]
           i == t.img
       IN
       i.called =>
          /\ i.webp <= 1 /\ i.png <= 1
          /\ ~i.decodes =>
                /\ t.res = Bail("File is not an image.")
                /\ t.ret = "File is not an image."
                /\ t.blob = NoBlob /\ t.sends = <<>>
                /\ i.webp = 0 /\ i.png = 0
          /\ (i.decodes /\ i.webpOk) =>
                /\ t.blob.ext = "webp"
                /\ i.webp = 1 /\ i.png = 0
          /\ (i.decodes /\ ~i.webpOk) =>
                /\ i.webp = 1 /\ i.png = 1
                /\ i.pngOk => t.blob.ext = "png"
                /\ ~i.pngOk => (t.blob = NoBlob /\ ~t.res.ok /\ t.sends = <<>>)

\* The webp encoder failed and the png fallback was delivered.
C13_Witness ==
    \E r \in Tasks :
       LET t == task[r] IN
       /\ t.img.called /\ t.img.decodes /\ ~t.img.webpOk /\ t.img.pngOk
       /\ t.img.webp = 1 /\ t.img.png = 1
       /\ t.pc = "done"
       /\ Len(t.sends) = 1
       /\ t.sends[1].blob.ext = "png" /\ t.sends[1].ok

\* The blobs task t handed to send_document, in order.
SentBlobs(t) == [i \in 1..Len(t.sends) |-> t.sends[i].blob]

\* C14: the operation fixes the deliveries: one webp or png for an image,
\* one webm for a video, the downloaded bytes tagged webp and no process for
\* a static sticker, one gif for an animated sticker, at most a webm of the
\* downloaded bytes and a gif for a video sticker; a request that succeeds
\* has made all of them, and no Blob is delivered twice.
C14_DeliveriesByOperation ==
    \A r \in Tasks :
       LET t == task[r]
           b == SentBlobs(t)
           n == Len(t.sends)
       IN
       /\ \A i, j \in 1..n : i # j => b[i] # b[j]
       /\ t.kind \in {"start", "other"} => n = 0
       /\ t.kind \in {"document", "photo"} =>
             /\ n <= 1
             /\ \A i \in 1..n : b[i].ext \in {"webp", "png"} /\ b[i].from = "encoder"
       /\ t.kind \in {"document_gif", "animation"} =>
             /\ n <= 1
             /\ \A i \in 1..n : b[i].ext = "webm" /\ b[i].from = "stdout"
       /\ t.kind = "sticker_static" =>
             /\ n <= 1
             /\ \A i \in 1..n : b[i] = Blob(t.dataLen, "webp", "download")
             /\ t.runs = <<>> /\ t.child = "none" /\ t.tmp = "none"
       /\ t.kind = "sticker_animated" =>
             /\ n <= 1
             /\ \A i \in 1..n : b[i].ext = "gif" /\ b[i].from = "stdout"
       /\ t.kind = "sticker_video" =>
             /\ n <= 2
             /\ \A i \in 1..n :
                   \/ b[i] = Blob(t.dataLen, "webm", "download")
                   \/ b[i].ext = "gif" /\ b[i].from = "stdout"
       /\ (Returned(t) /\ t.res.ok) =>
             /\ n = (IF t.kind = "sticker_video" THEN 2 ELSE 1)
             /\ \A i \in 1..n : t.sends[i].ok

\* A video sticker delivered as the downloaded webm and as a gif.
C14_Witness ==
    \E r \in Tasks :
       LET t == task[r] IN
       /\ t.kind = "sticker_video"
       /\ t.pc = "done" /\ t.res.ok
       /\ t.dataLen = 7
       /\ Len(t.sends) = 2
       /\ {t.sends[1].blob, t.sends[2].blob} =
             {Blob(7, "webm", "download"),
              Blob(MAX_OUTPUT_WEBM_SIZE, "gif", "stdout")}

\* C15: every Blob handed to send_document has at least one byte and one of
\* the extensions webp, png, webm, gif.
C15_BlobsNonEmpty ==
    \A r \in Tasks :
       \A i \in 1..Len(task[r].sends) :
          LET b == task[r].sends[i].blob IN
          /\ b.len > 0
          /\ b.ext \in {"webp", "png", "webm", "gif"}


\* C16: the attachment made from a Blob is named <base>.<ext> when the request
\* has a base name and out.<ext> when it has none, so the name always ends in
\* .<ext>; its bytes are the Blob's.
C16_AttachmentName ==
    \A r \in Tasks :
       \A i \in 1..Len(task[r].sends) :
          LET s == task[r].sends[i]
              stem == IF task[r].base = None THEN "out" ELSE task[r].base[1]
              n == Len(s.file.name)
              e == Len(s.blob.ext)
          IN /\ n = Len(stem) + 1 + e
             /\ SubSeq(s.file.name, 1, Len(stem)) = stem
             /\ SubSeq(s.file.name, n - e, n) = "." \o s.blob.ext
             /\ s.file.len = s.blob.len

\* A GIF document named a.gif was converted and sent as a.gif.webm.
C16_Witness ==
    \E r \in Tasks :
       /\ task[r].base = Some("a.gif")
       /\ \E i \in 1..Len(task[r].sends) :
             /\ task[r].sends[i].ok
             /\ task[r].sends[i].file.name = "a.gif.webm"

\* C17: a media message whose declared size exceeds MAX_SIZE is answered
\* "File is too large." with no get_file call; one whose declared size passes
\* but whose fetched size exceeds MAX_SIZE fails, and the text sent to the
\* user is "File too big".
C17_TwoSizeRejections ==
    \A r \in Tasks :
       LET t == task[r] IN
       /\ (/\ t.kind \notin {"start", "other"}
           /\ t.declSize > MAX_SIZE
           /\ Returned(t))
          => /\ t.ret = "File is too large."
             /\ t.fetches = 0
             /\ t.res = NoResult
             /\ \A i \in 1..Len(t.texts) : t.texts[i].text = "File is too large."
       /\ t.fsize > MAX_SIZE
          => /\ t.declSize <= MAX_SIZE
             /\ t.fetches = 1
             /\ Returned(t)
             /\ ~t.res.ok
             /\ t.ret = "File too big"
             /\ t.sends = <<>>
             /\ \A i \in 1..Len(t.texts) : t.texts[i].text = "File too big"
             /\ t.pc = "done" => Len(t.texts) = 1

\* The fetched size was over the limit and the user was
\* sent "File too big".
C17_Witness ==
    \E r \in Tasks :
       /\ task[r].pc = "done"
       /\ task[r].fsize = MAX_SIZE + 1
       /\ task[r].declSize = MAX_SIZE
       /\ task[r].texts = <<[text |-> "File too big", ok |-> TRUE]>>

\* The declared size was over the limit and the user was sent
\* "File is too large.".
C17_WitnessDeclared ==
    \E r \in Tasks :
       /\ task[r].pc = "done"
       /\ task[r].declSize = MAX_SIZE + 1
       /\ task[r].fetches = 0
       /\ task[r].texts = <<[text |-> "File is too large.", ok |-> TRUE]>>

\* C18: a text is attempted exactly when the handler returned a non-empty
\* string: never before the handler and both join paths have finished, never
\* for a request that succeeded, once for a request that failed, and never a
\* second time, whether or not the first attempt arrived.
C18_TextIffHandlerString ==
    \A r \in Tasks :
       LET t == task[r] IN
       /\ Len(t.texts) <= 1
       /\ t.texts # <<>> =>
             /\ t.pc = "done"
             /\ t.texts[1].text = t.ret
             /\ t.pcA \in {"idle", "done"} /\ t.pcB \in {"idle", "done"}
             /\ t.wpc = "idle"
       /\ t.pc = "done" =>
             /\ t.texts # <<>> <=> t.ret # ""
             /\ t.res = Ok => t.texts = <<>>
             /\ (t.res # NoResult /\ ~t.res.ok) => Len(t.texts) = 1

\* A failed request whose single text attempt was itself lost.
C18_Witness ==
    \E r \in Tasks :
       LET t == task[r] IN
       /\ t.pc = "done"
       /\ ~t.res.ok /\ t.res # NoResult
       /\ t.texts = <<[text |-> t.ret, ok |-> FALSE]>>

\* A request that succeeded throughout ended with no text.
C18_WitnessSuccess ==
    \E r \in Tasks :
       LET t == task[r] IN
       /\ t.pc = "done"
       /\ t.res = Ok
       /\ Len(t.sends) = 2
       /\ t.texts = <<>>

\* The calls in seq that succeeded, in the order of the calls.
Arrived(seq) == SelectSeq(seq, LAMBDA c : c.ok)

\* The ids of the deliveries that succeeded, in order.
SendIds(t) == [i \in 1..Len(Arrived(t.sends)) |-> Arrived(t.sends)[i].blob.ext]

\* The id of the text reply, if it was sent.
TextIds(t) == [i \in 1..Len(Arrived(t.texts)) |-> "text"]

\* C19: in every state resp_ids holds one id for each delivery that has
\* succeeded so far, in the order they completed, then the id of the text
\* reply if it was sent; a failed delivery or text adds nothing, and no entry
\* is lost whichever of the two video sticker deliveries completes first.
C19_CollectorExact ==
    \A r \in Tasks :
       LET t == task[r] IN
       t.resp_ids = SendIds(t) \o TextIds(t)

\* The gif delivery of a video sticker completed before the webm delivery and
\* the collector holds both ids in that order.
C19_Witness ==
    \E r \in Tasks :
       LET t == task[r] IN
       /\ t.pc = "done"
       /\ t.resp_ids = <<"gif", "webm">>
       /\ Len(t.sends) = 2

\* The webm delivery completed first, the gif delivery failed and the text
\* reply arrived: the collector holds the webm and the text.
C19_WitnessText ==
    \E r \in Tasks :
       LET t == task[r] IN
       /\ t.pc = "done"
       /\ Len(t.sends) = 2
       /\ t.resp_ids = <<"webm", "text">>
====
